---------------------------- MODULE Spec2Model ----------------------------
(***************************************************************************)
(* Extraction orchestrators of RenderMe360_extraction:                     *)
(*   StreamingExtractor        (extract_streaming_gdrive.py)               *)
(*   RenderMe360ExtractorFull  (extract_subject_FULL_both.py)              *)
(* One process at a time runs process_subject over the configured          *)
(* performances of one subject; the process can be killed at any step and  *)
(* started again, keeping only what is on disk (output tree, completion    *)
(* markers, downloaded archives, manifest CSV).                            *)
(* SpecRun is run's loop over the configured subjects with the storage     *)
(* check of process_subject; SpecCameras is the camera selection of one    *)
(* extraction (camera_list, calibration files, images, completed row).     *)
(***************************************************************************)
EXTENDS Integers, Sequences, FiniteSets, TLC

\* ------------------------------------------------------------------ bounds
NumCams == 2
NumFrames == 2
MaxRetriesCfg == 2
MaxRuns == 2
MaxSubjects == 3
MaxFreeGb == 2
NumCamIds == 3
NumCallers == 2
MaxGray == 4
MaxPixels == 2

\* --------------------------------------------------------- configuration
\* subject ids as strings of character codes: 0 .. 9 are the digits, Letter
\* is a character that is no digit; "01" and "a1"
Letter == 10
SubjectIds == {<<0, 1>>, <<Letter, 1>>}
\* the configured performance list: both performances, or the single one of
\* a run with --performance
PerformanceLists == {<<"s1_all">>, <<"s1_all", "s2_all">>}
Modalities == {"metadata", "calibration", "images", "masks"}
Cams == 0 .. (NumCams - 1)
Frames == 0 .. (NumFrames - 1)
None == -1
NoPerf == "none"

VARIABLES
  \* configuration and archive contents (fixed during a behaviour)
  variant, cfg_subject, performances, separate_sources, force_reextract,
  delete_smc_after_extraction, max_retries, calibGroup, undecodable,
  \* disk
  files, partial, markers, temp_smc, manifest_csv,
  \* the running process
  pc, runs, manifest_df, perfIdx, perf, attempt, slept, dlKind, dlResult,
  got, downloaded_files, extIdx, xsrc, xcam, xframe, xkind,
  \* observation of the current run
  invoked, ran, wrote, rewrote, updated, enteredMarked, enteredFresh,
  finished, noArchive, completedAtStart, lastRow

cfgVars == <<variant, cfg_subject, performances, separate_sources,
             force_reextract, delete_smc_after_extraction, max_retries,
             calibGroup, undecodable>>
diskVars == <<files, partial, markers, temp_smc, manifest_csv>>
loopVars == <<perfIdx, perf, attempt, slept, dlKind, dlResult, got,
              downloaded_files, extIdx>>
posVars == <<xsrc, xcam, xframe, xkind>>
obsVars == <<invoked, ran, wrote, rewrote, updated, enteredMarked,
             enteredFresh, finished, noArchive, completedAtStart>>

VARIABLES
  \* run: the loop over the configured subjects and the storage check
  subjects, min_free_space_gb, free_gb, run_pc, subj_i,
  lowAtStart, storageChecks, transfers, extractions, rowWrites,
  \* camera selection of one extraction
  camera_config, camera_group, calibration_group, num_device,
  cam_pc, camera_list, todo, all_cameras_npy, cam_npy, image_cams,
  cameras_extracted, task_status

runVars == <<subjects, min_free_space_gb, free_gb, run_pc, subj_i,
             lowAtStart, storageChecks, transfers, extractions, rowWrites>>
camVars == <<camera_config, camera_group, calibration_group, num_device,
             cam_pc, camera_list, todo, all_cameras_npy, cam_npy,
             image_cams, cameras_extracted, task_status>>

VARIABLES
  \* SMCReader: the Calibration group of the archive, the calibration
  \* cache of the handle and the get_Calibration_all calls under way
  smc_Calibration, calibration_dict, caller_pc, c_keys, c_ci, c_mt,
  returned_dict, loads, concurrent_callers,
  \* SMCReader: the accessors of one archive
  performance_part, smc_groups, smc_Camera, request, acc_result,
  \* one mask entry and its two decodings
  mask_entry, direct_out, max_out, mask_done

calVars == <<smc_Calibration, calibration_dict, caller_pc, c_keys, c_ci,
             c_mt, returned_dict, loads, concurrent_callers>>
accVars == <<performance_part, smc_groups, smc_Camera, request, acc_result>>
maskVars == <<mask_entry, direct_out, max_out, mask_done>>
readerVars == <<calVars, accVars, maskVars>>
sideVars == <<runVars, camVars, readerVars>>
mainVars == <<cfg_subject, performances, separate_sources, force_reextract,
              delete_smc_after_extraction, max_retries, calibGroup,
              undecodable, diskVars, pc, runs, manifest_df, loopVars,
              posVars, obsVars, lastRow>>
vars == <<cfgVars, diskVars, pc, runs, manifest_df, loopVars, posVars,
          obsVars, lastRow, sideVars>>

\* config extraction.subjects: "01", "02", ...
AllSubjects == {<<0, i>> : i \in 1 .. MaxSubjects}
SubjectLists == {[i \in 1 .. n |-> <<0, i>>] : n \in 1 .. MaxSubjects}
\* shutil.disk_usage(output_dir).free and limits.min_free_space_gb, in GB
FreeLevels == 0 .. MaxFreeGb
\* camera ids of the rig
CamIds == 0 .. (NumCamIds - 1)
\* config extraction.cameras: 'all' or a list of camera ids
CameraConfigs ==
  {[all |-> TRUE, ids |-> {}]}
    \cup {[all |-> FALSE, ids |-> c] : c \in (SUBSET CamIds) \ {{}}}

\* callers of one reader handle
Callers == 1 .. NumCallers
\* the datasets of one camera of the Calibration group
Matrices == <<"D", "K", "RT">>
MatrixNames == {Matrices[i] : i \in DOMAIN Matrices}
\* the groups behind the gated accessors
GatedGroups == {"audio", "FLAME", "UV_texture", "Scan", "ScanMask"}
\* the empty dict
EmptyDict == [ci \in {} |-> {}]
NoRequest == [fn |-> "none", cam |-> None, frame |-> None]

\* no reader call is under way
CalIdle ==
  /\ smc_Calibration = EmptyDict
  /\ calibration_dict = [is_none |-> TRUE, d |-> EmptyDict]
  /\ caller_pc = [t \in Callers |-> "returned"]
  /\ c_keys = [t \in Callers |-> {}]
  /\ c_ci = [t \in Callers |-> None]
  /\ c_mt = [t \in Callers |-> 1]
  /\ returned_dict = [t \in Callers |-> EmptyDict]
  /\ loads = 0 /\ concurrent_callers = FALSE

AccIdle ==
  /\ performance_part = "e" /\ smc_groups = {}
  /\ smc_Camera = EmptyDict
  /\ request = NoRequest /\ acc_result = "done"

MaskIdle ==
  /\ mask_entry = <<>> /\ direct_out = <<>> /\ max_out = <<>>
  /\ mask_done = {"direct", "max"}

ReaderIdle == CalIdle /\ AccIdle /\ MaskIdle

\* no run loop is under way
RunIdle ==
  /\ subjects = <<<<0, 1>>>> /\ min_free_space_gb = 0 /\ free_gb = 0
  /\ run_pc = "run_end" /\ subj_i = 1
  /\ lowAtStart = {} /\ storageChecks = [s \in AllSubjects |-> 0]
  /\ transfers = {} /\ extractions = {} /\ rowWrites = {}

\* no camera selection is under way
CamIdle ==
  /\ camera_config = [all |-> TRUE, ids |-> {}]
  /\ camera_group = {} /\ calibration_group = {} /\ num_device = 0
  /\ cam_pc = "end" /\ camera_list = {} /\ todo = {}
  /\ all_cameras_npy = {} /\ cam_npy = {} /\ image_cams = {}
  /\ cameras_extracted = None /\ task_status = "pending"

\* the subject --subject names
Subject == cfg_subject

\* ------------------------------------------------------- manifest (CSV)
\* A subject cell of the DataFrame is a Python str or an int; the text of
\* an int is its decimal digits.
StrCell(t) == [ty |-> "str", txt |-> t]
IntCell(t) == [ty |-> "int", txt |-> t]

IsDigits(t) == Len(t) > 0 /\ \A i \in DOMAIN t : t[i] \in 0 .. 9

RECURSIVE StripZeros(_)
StripZeros(t) ==
  IF Len(t) > 1 /\ t[1] = 0 THEN StripZeros(Tail(t)) ELSE t

\* DataFrame.to_csv: every cell is written as its text
to_csv(df) ==
  [i \in DOMAIN df |-> [df[i] EXCEPT !.subject = df[i].subject.txt]]

\* pandas.read_csv: a column whose every cell parses as an integer becomes
\* an integer column, any other column keeps its text
read_csv(csv) ==
  LET numeric == \A i \in DOMAIN csv : IsDigits(csv[i].subject)
  IN [i \in DOMAIN csv |->
        [csv[i] EXCEPT !.subject =
           IF numeric THEN IntCell(StripZeros(csv[i].subject))
                      ELSE StrCell(csv[i].subject)]]

load_manifest == read_csv(manifest_csv)

\* (df['subject'] == subject_id) & (df['performance'] == performance)
Mask(df, subject_id, p) ==
  {i \in DOMAIN df : df[i].subject = StrCell(subject_id)
                      /\ df[i].performance = p}

MinOf(S) == CHOOSE i \in S : \A j \in S : i <= j

NewRow(subject_id, p, status, cameras, error, now) ==
  [subject |-> StrCell(subject_id), performance |-> p, status |-> status,
   cameras_extracted |-> cameras, error |-> error, timestamp |-> now]

\* StreamingExtractor.update_manifest: first matching row, given fields only
StreamingUpdate(df, subject_id, p, status, cameras, error, now) ==
  LET m == Mask(df, subject_id, p) IN
  IF m # {}
    THEN [df EXCEPT ![MinOf(m)] =
            [@ EXCEPT !.status = status, !.timestamp = now,
                      !.cameras_extracted =
                         IF cameras # None THEN cameras ELSE @,
                      !.error = IF error # "" THEN error ELSE @]]
    ELSE Append(df, NewRow(subject_id, p, status, cameras, error, now))

\* RenderMe360ExtractorFull.update_manifest: every matching row
FullUpdate(df, subject_id, p, status, cameras, error, now) ==
  LET m == Mask(df, subject_id, p) IN
  IF m # {}
    THEN [i \in DOMAIN df |->
            IF i \in m
              THEN [df[i] EXCEPT !.status = status, !.timestamp = now,
                                 !.cameras_extracted =
                                    IF cameras # None THEN cameras ELSE @,
                                 !.error = IF error # "" THEN error ELSE @]
              ELSE df[i]]
    ELSE Append(df, NewRow(subject_id, p, status, cameras, error, now))

update_manifest(df, p, status, cameras, error) ==
  IF variant = "streaming"
    THEN StreamingUpdate(df, Subject, p, status, cameras, error, runs)
    ELSE FullUpdate(df, Subject, p, status, cameras, error, runs)

\* the row update_manifest has just written for (Subject, p)
RowOf(df, p) == df[MinOf(Mask(df, Subject, p))]

\* ------------------------------------------------- archives, output tree
PerfSet == {"s1_all", "s2_all"}

\* entries of an archive that the extractors ask get_img for
Entries(v) ==
  [src : {"raw"}, kind : {"color", "mask"}, cam : Cams, frame : Frames]
  \cup (IF v = "full"
          THEN [src : {"anno"}, kind : {"mask"}, cam : Cams, frame : Frames]
          ELSE {})

\* SMCReader.get_img raises (AssertionError for an absent key, an error of
\* the decode for a corrupt payload) exactly for the undecodable entries
Decodable(src, kind, cam, frame) ==
  [src |-> src, kind |-> kind, cam |-> cam, frame |-> frame] \notin undecodable

\* output subtree written from an archive
Root(src) ==
  IF variant = "streaming" \/ ~separate_sources THEN "out"
  ELSE IF src = "anno" THEN "from_anno" ELSE "from_raw"

ModalityDir(kind) == IF kind = "color" THEN "images" ELSE "masks"

OutPath(p, root, dir, cam, frame) ==
  [perf |-> p, root |-> root, dir |-> dir, cam |-> cam, frame |-> frame]

FramePath(p, src, kind, cam, frame) ==
  OutPath(p, Root(src), ModalityDir(kind), cam, frame)

\* len(list(dir.glob('frame_*')))
Existing(p, src, kind, cam) ==
  Cardinality({f \in Frames : FramePath(p, src, kind, cam, f) \in files})

FilesOf(p) == {f \in files : f.perf = p}

SmcFile(p, kind) == [perf |-> p, kind |-> kind]

\* the marker test with the negation of the force flag dropped
AlreadyExtractedForced(p) == p \in markers /\ force_reextract

\* completion_marker.exists() and not force_reextract
AlreadyExtracted(p) == p \in markers /\ ~force_reextract

\* mask.any() and status == 'completed'
AlreadyCompleted(df, p) ==
  LET m == Mask(df, Subject, p) IN
  m # {} /\ df[MinOf(m)].status = "completed"

FirstKind(src) == IF src = "anno" THEN "mask" ELSE "color"

\* --------------------------------------------------------------- Init
\* archives: every entry decodable, or one entry of camera 0 that is not
FaultChoices(v) == {{}} \cup {{e} : e \in {x \in Entries(v) : x.cam = 0}}

Init ==
  /\ variant \in {"streaming", "full"}
  /\ cfg_subject \in SubjectIds
  /\ performances \in PerformanceLists
  /\ separate_sources \in BOOLEAN
  /\ (variant = "streaming" => separate_sources)
  /\ force_reextract \in BOOLEAN
  /\ delete_smc_after_extraction \in BOOLEAN
  /\ max_retries \in {0, MaxRetriesCfg}
  /\ calibGroup \in BOOLEAN
  /\ undecodable \in FaultChoices(variant)
  /\ (calibGroup \/ undecodable = {})
  /\ (Len(performances) = 1 \/ undecodable = {})
  /\ (Len(performances) = 1 \/ separate_sources)
  /\ (cfg_subject[1] # Letter \/ undecodable = {})
  /\ files = {} /\ partial = {} /\ markers = {} /\ temp_smc = {}
  /\ manifest_csv = <<>>
  /\ pc = "dead" /\ runs = 0 /\ manifest_df = <<>>
  /\ perfIdx = 1 /\ perf = NoPerf /\ attempt = 0 /\ slept = FALSE
  /\ dlKind = "raw" /\ dlResult = "pending" /\ got = {}
  /\ downloaded_files = <<>> /\ extIdx = 1
  /\ xsrc = "raw" /\ xcam = 0 /\ xframe = 0 /\ xkind = "color"
  /\ invoked = {} /\ ran = {} /\ wrote = {} /\ rewrote = {} /\ updated = {}
  /\ enteredMarked = {}
  /\ enteredFresh = {} /\ finished = {} /\ noArchive = {}
  /\ completedAtStart = {}
  /\ lastRow = [p \in PerfSet |-> <<>>]
  /\ RunIdle /\ CamIdle /\ ReaderIdle

ResetProcess ==
  /\ perfIdx' = 1 /\ perf' = NoPerf /\ attempt' = 0 /\ slept' = FALSE
  /\ dlKind' = "raw" /\ dlResult' = "pending" /\ got' = {}
  /\ downloaded_files' = <<>> /\ extIdx' = 1
  /\ xsrc' = "raw" /\ xcam' = 0 /\ xframe' = 0 /\ xkind' = "color"
  /\ invoked' = {} /\ ran' = {} /\ wrote' = {} /\ rewrote' = {}
  /\ updated' = {}
  /\ enteredMarked' = {}
  /\ enteredFresh' = {} /\ finished' = {} /\ noArchive' = {}

\* __init__ (load_manifest) and run: a new process starts
StartRun ==
  /\ pc \in {"dead", "done"}
  /\ UNCHANGED sideVars
  /\ runs < MaxRuns
  /\ runs' = runs + 1
  /\ manifest_df' = load_manifest
  /\ pc' = "process_subject"
  /\ ResetProcess
  /\ completedAtStart' =
       {p \in PerfSet : lastRow[p] # <<>> /\ lastRow[p][1].status = "completed"}
  /\ UNCHANGED <<cfgVars, diskVars, lastRow>>

\* the process is killed (or interrupted): only the disk survives
Kill ==
  /\ pc \notin {"dead", "done"}
  /\ UNCHANGED sideVars
  /\ pc' = "dead"
  /\ manifest_df' = <<>>
  /\ ResetProcess
  /\ completedAtStart' = {}
  /\ UNCHANGED <<cfgVars, diskVars, runs, lastRow>>

\* the process is killed while cv2.imwrite is writing a frame to its final
\* path: the file exists with a part of its content
KillMidWrite ==
  /\ pc = "x_frame"
  /\ UNCHANGED sideVars
  /\ FramePath(perf, xsrc, xkind, xcam, xframe) \notin files
  /\ Decodable(xsrc, xkind, xcam, xframe)
  /\ files' = files \cup {FramePath(perf, xsrc, xkind, xcam, xframe)}
  /\ partial' = partial \cup {FramePath(perf, xsrc, xkind, xcam, xframe)}
  /\ pc' = "dead"
  /\ manifest_df' = <<>>
  /\ ResetProcess
  /\ completedAtStart' = {}
  /\ UNCHANGED <<cfgVars, markers, temp_smc, manifest_csv, runs, lastRow>>

\* the table save_manifest is about to write at the end of an extraction
PendingTable == to_csv(update_manifest(manifest_df, perf, "completed", NumCams, ""))

\* DataFrame.to_csv opens the manifest file for writing, which empties it,
\* and writes the rows one after the other
Truncations(csv) == {SubSeq(csv, 1, k) : k \in 0 .. (Len(csv) - 1)}

\* the process is killed inside save_manifest
KillMidSave ==
  /\ pc = "x_manifest"
  /\ UNCHANGED sideVars
  /\ manifest_csv' \in Truncations(PendingTable)
  /\ pc' = "dead"
  /\ manifest_df' = <<>>
  /\ ResetProcess
  /\ completedAtStart' = {}
  /\ UNCHANGED <<cfgVars, files, partial, markers, temp_smc, runs, lastRow>>

\* update_manifest followed by save_manifest
WriteManifest(p, status, cameras, error) ==
  /\ manifest_df' = update_manifest(manifest_df, p, status, cameras, error)
  /\ manifest_csv' = to_csv(manifest_df')
  /\ updated' = updated \cup {p}
  /\ lastRow' = [lastRow EXCEPT ![p] = <<RowOf(manifest_df', p)>>]

ManifestUnchanged == UNCHANGED <<manifest_df, manifest_csv, updated, lastRow>>

\* process_subject: storage check before the performance loop
ProcessSubject ==
  /\ pc = "process_subject"
  /\ UNCHANGED sideVars
  /\ \E free_ok \in BOOLEAN :
       pc' = IF free_ok THEN "perf_loop" ELSE "done"
  /\ ManifestUnchanged
  /\ UNCHANGED <<cfgVars, files, partial, markers, temp_smc, runs, loopVars, posVars,
                 invoked, ran, wrote, rewrote, enteredMarked, enteredFresh, finished,
                 noArchive, completedAtStart>>

BeginDownload(kind) ==
  /\ pc' = "download"
  /\ dlKind' = kind /\ attempt' = 0 /\ slept' = FALSE /\ dlResult' = "pending"

\* the locals of the download function are gone once it has returned
EndDownload ==
  dlKind' = "raw" /\ attempt' = 0 /\ slept' = FALSE /\ dlResult' = "pending"

\* StreamingExtractor.process_subject, download loop head
S_PerfLoop ==
  /\ variant = "streaming" /\ pc = "perf_loop"
  /\ UNCHANGED sideVars
  /\ IF perfIdx > Len(performances)
       THEN /\ pc' = "extract_loop"
            /\ UNCHANGED <<perfIdx, perf, attempt, slept, dlKind, dlResult>>
       ELSE IF AlreadyCompleted(manifest_df, performances[perfIdx])
         THEN /\ pc' = "perf_loop" /\ perfIdx' = perfIdx + 1
              /\ UNCHANGED <<perf, attempt, slept, dlKind, dlResult>>
         ELSE /\ perf' = performances[perfIdx]
              /\ BeginDownload("raw")
              /\ UNCHANGED perfIdx
  /\ ManifestUnchanged
  /\ UNCHANGED <<cfgVars, files, partial, markers, temp_smc, runs, got,
                 downloaded_files, extIdx, posVars, obsVars>>

\* RenderMe360ExtractorFull.process_subject, performance loop head
F_PerfLoop ==
  /\ variant = "full" /\ pc = "perf_loop"
  /\ UNCHANGED sideVars
  /\ IF perfIdx > Len(performances)
       THEN /\ pc' = "done"
            /\ UNCHANGED <<perf, attempt, slept, dlKind, dlResult, got>>
       ELSE /\ perf' = performances[perfIdx]
            /\ got' = {}
            /\ BeginDownload("anno")
  /\ ManifestUnchanged
  /\ UNCHANGED <<cfgVars, files, partial, markers, temp_smc, runs, perfIdx,
                 downloaded_files, extIdx, posVars, obsVars>>

\* ------------------------------------------------------------ download
\* One pass of the retry loop of download_smc_with_rclone /
\* _download_with_rclone: subprocess.run of the transfer command, then the
\* check of the local file. outcome: "ok" (exit 0, file present), "nofile"
\* (exit 0, no local file), "error" (CalledProcessError).
DownloadAttempt ==
  /\ pc = "download"
  /\ UNCHANGED sideVars
  /\ attempt < max_retries
  /\ \E outcome \in {"ok", "nofile", "error"} :
       /\ outcome = "nofile" => SmcFile(perf, dlKind) \notin temp_smc
       /\ invoked' = invoked \cup {perf}
       /\ slept' = FALSE
       /\ attempt' = attempt + 1
       /\ temp_smc' = IF outcome = "ok"
                        THEN temp_smc \cup {SmcFile(perf, dlKind)}
                        ELSE temp_smc
       /\ CASE outcome = "ok" ->
                 /\ dlResult' = "ok" /\ pc' = "download_done"
            [] outcome = "nofile" ->
                 \* streaming raises FileNotFoundError out of the loop;
                 \* full falls through to the next pass of the loop
                 IF variant = "streaming"
                   THEN dlResult' = "failed" /\ pc' = "download_done"
                   ELSE dlResult' = "pending" /\ pc' = "download"
            [] outcome = "error" ->
                 IF attempt < max_retries - 1
                   THEN dlResult' = "pending" /\ pc' = "retry_sleep"
                   ELSE IF variant = "streaming"
                     THEN dlResult' = "failed" /\ pc' = "download_done"
                     ELSE dlResult' = "pending" /\ pc' = "download"
  /\ ManifestUnchanged
  /\ UNCHANGED <<cfgVars, files, partial, markers, runs, perfIdx, perf, dlKind, got,
                 downloaded_files, extIdx, posVars, ran, wrote, rewrote, enteredMarked,
                 enteredFresh, finished, noArchive, completedAtStart>>

\* time.sleep(retry_delay)
RetrySleep ==
  /\ pc = "retry_sleep"
  /\ UNCHANGED sideVars
  /\ slept' = TRUE
  /\ pc' = "download"
  /\ ManifestUnchanged
  /\ UNCHANGED <<cfgVars, files, partial, markers, temp_smc, runs, perfIdx, perf,
                 attempt, dlKind, dlResult, got, downloaded_files, extIdx,
                 posVars, obsVars>>

\* the retry loop ran out of passes: streaming returns None, full False
DownloadExhausted ==
  /\ pc = "download"
  /\ UNCHANGED sideVars
  /\ attempt >= max_retries
  /\ dlResult' = IF variant = "streaming" THEN "none" ELSE "failed"
  /\ pc' = "download_done"
  /\ ManifestUnchanged
  /\ UNCHANGED <<cfgVars, files, partial, markers, temp_smc, runs, perfIdx, perf,
                 attempt, slept, dlKind, got, downloaded_files, extIdx,
                 posVars, obsVars>>

\* process_subject recording a download failure for every download
RecordsDownloadFailureAlways(result, archives) == TRUE

\* process_subject without its manifest update for a missing archive
RecordsDownloadFailureNever(result, archives) == FALSE

\* process_subject records 'download_failed': in the except branch around
\* the download (streaming), when neither archive was obtained (full)
RecordsDownloadFailure(result, archives) ==
  IF variant = "streaming" THEN result = "failed" ELSE archives = {}

\* the caller of the download: process_subject (streaming), or
\* download_smc_bundle and process_subject (full)
AfterDownload ==
  /\ pc = "download_done"
  /\ UNCHANGED sideVars
  /\ IF variant = "streaming"
       THEN /\ perfIdx' = perfIdx + 1
            /\ pc' = "perf_loop"
            /\ got' = got
            /\ EndDownload
            /\ downloaded_files' = IF dlResult = "ok"
                                     THEN Append(downloaded_files, perf)
                                     ELSE downloaded_files
            /\ noArchive' = IF dlResult = "ok" THEN noArchive
                                               ELSE noArchive \cup {perf}
            /\ IF RecordsDownloadFailure(dlResult, got)
                 THEN WriteManifest(perf, "download_failed", None,
                                    "download error")
                 ELSE ManifestUnchanged
       ELSE LET got1 == IF dlResult = "ok" THEN got \cup {dlKind} ELSE got IN
            /\ got' = got1
            /\ UNCHANGED downloaded_files
            /\ IF dlKind = "anno"
                 THEN /\ BeginDownload("raw")
                      /\ UNCHANGED <<perfIdx, noArchive>>
                      /\ ManifestUnchanged
                 ELSE /\ EndDownload
                      /\ IF got1 = {}
                           THEN /\ IF RecordsDownloadFailure(dlResult, got1)
                                     THEN WriteManifest(perf, "download_failed",
                                                None, "No files downloaded")
                                     ELSE ManifestUnchanged
                                /\ noArchive' = noArchive \cup {perf}
                                /\ perfIdx' = perfIdx + 1
                                /\ pc' = "perf_loop"
                           ELSE /\ ManifestUnchanged
                                /\ UNCHANGED <<perfIdx, noArchive>>
                                /\ pc' = "extract_enter"
  /\ UNCHANGED <<cfgVars, files, partial, markers, temp_smc, runs, perf, extIdx,
                 posVars, invoked, ran, wrote, rewrote, enteredMarked, enteredFresh,
                 finished, completedAtStart>>

\* StreamingExtractor.process_subject, extraction loop head
S_ExtractLoop ==
  /\ variant = "streaming" /\ pc = "extract_loop"
  /\ UNCHANGED sideVars
  /\ IF extIdx > Len(downloaded_files)
       THEN pc' = "cleanup" /\ UNCHANGED <<perf, got>>
       ELSE /\ perf' = downloaded_files[extIdx]
            /\ got' = {"raw"}
            /\ pc' = "extract_enter"
  /\ ManifestUnchanged
  /\ UNCHANGED <<cfgVars, files, partial, markers, temp_smc, runs, perfIdx, attempt,
                 slept, dlKind, dlResult, downloaded_files, extIdx, posVars,
                 obsVars>>

\* ---------------------------------------------------------- extraction
\* what no extraction step touches
xUnchanged == <<cfgVars, temp_smc, runs, perf, attempt, slept, dlKind,
                dlResult, got, downloaded_files, invoked, noArchive,
                completedAtStart>>

Stay == UNCHANGED <<perfIdx, extIdx>>

\* back in process_subject: the next downloaded file (streaming), the next
\* performance (full)
ResetPos == xsrc' = "raw" /\ xcam' = 0 /\ xframe' = 0 /\ xkind' = "color"

NextTask ==
  /\ ResetPos
  /\ IF variant = "streaming"
       THEN extIdx' = extIdx + 1 /\ pc' = "extract_loop" /\ UNCHANGED perfIdx
       ELSE perfIdx' = perfIdx + 1 /\ pc' = "perf_loop" /\ UNCHANGED extIdx

\* An exception leaves the extraction: extract_performance records 'failed'
\* and re-raises, process_subject logs it (streaming); process_subject
\* records 'failed' (full). Neither deletes the archive.
RaiseOut(error) ==
  /\ WriteManifest(perf, "failed", None, error)
  /\ NextTask

\* extract_performance / extract_full_performance up to the readers
ExtractEnter ==
  /\ pc = "extract_enter"
  /\ UNCHANGED sideVars
  /\ enteredMarked' = IF perf \in markers THEN enteredMarked \cup {perf}
                                          ELSE enteredMarked
  /\ enteredFresh' = IF FilesOf(perf) = {} THEN enteredFresh \cup {perf}
                                           ELSE enteredFresh
  /\ IF AlreadyExtracted(perf)
       THEN pc' = "post_extract" /\ Stay /\ UNCHANGED posVars
       ELSE IF variant = "full" /\ got = {}
         THEN NextTask
         ELSE pc' = "x_metadata" /\ Stay /\ UNCHANGED posVars
  /\ ManifestUnchanged
  /\ UNCHANGED <<xUnchanged, files, partial, markers, ran, wrote, rewrote, finished>>

\* root of the metadata and of the primary reader
PrimaryRoot == Root(IF "anno" \in got THEN "anno" ELSE "raw")

XMetadata ==
  /\ pc = "x_metadata"
  /\ UNCHANGED sideVars
  /\ files' = IF "metadata" \in Modalities
                THEN files \cup {OutPath(perf, PrimaryRoot, "metadata", None, None)}
                ELSE files
  /\ ran' = ran \cup {perf}
  /\ wrote' = IF "metadata" \in Modalities THEN wrote \cup {perf} ELSE wrote
  /\ rewrote' = IF "metadata" \in Modalities
                  THEN rewrote \cup
                       ({OutPath(perf, PrimaryRoot, "metadata", None, None)}
                          \cap files)
                  ELSE rewrote
  /\ UNCHANGED partial
  /\ pc' = "x_calibration" /\ Stay
  /\ ManifestUnchanged
  /\ UNCHANGED <<xUnchanged, markers, posVars, enteredMarked, enteredFresh,
                 finished>>

\* the archive whose Calibration group is read
CalibrationSource == IF variant = "streaming" THEN "raw" ELSE "anno"

CalibrationFiles(p) ==
  {OutPath(p, Root(CalibrationSource), "calibration", None, None)}
  \cup {OutPath(p, Root(CalibrationSource), "calibration", c, None) : c \in Cams}

\* the first image/mask pass: the single archive (streaming); the raw
\* archive if present, else the annotation archive (full)
FirstPass == IF variant = "streaming" \/ "raw" \in got THEN "raw" ELSE "anno"

\* extract_calibration; get_Calibration_all raises KeyError when the archive
\* has no Calibration group and nothing around the call catches it
XCalibration ==
  /\ pc = "x_calibration"
  /\ UNCHANGED sideVars
  /\ ran' = ran \cup {perf}
  /\ wrote' = IF "calibration" \in Modalities /\ CalibrationSource \in got
                  /\ calibGroup
                THEN wrote \cup {perf} ELSE wrote
  /\ rewrote' = IF "calibration" \in Modalities /\ CalibrationSource \in got
                    /\ calibGroup
                  THEN rewrote \cup (CalibrationFiles(perf) \cap files)
                  ELSE rewrote
  /\ UNCHANGED partial
  /\ IF "calibration" \in Modalities /\ CalibrationSource \in got
       THEN IF calibGroup
              THEN /\ files' = files \cup CalibrationFiles(perf)
                   /\ pc' = "x_cam" /\ Stay
                   /\ xsrc' = FirstPass /\ xcam' = 0
                   /\ UNCHANGED <<xframe, xkind>>
                   /\ ManifestUnchanged
              ELSE /\ RaiseOut("Calibration")
                   /\ UNCHANGED files
       ELSE /\ pc' = "x_cam" /\ Stay
            /\ xsrc' = FirstPass /\ xcam' = 0
            /\ UNCHANGED <<xframe, xkind>>
            /\ ManifestUnchanged
            /\ UNCHANGED files
  /\ UNCHANGED <<xUnchanged, markers, enteredMarked, enteredFresh, finished>>

\* "if existing_images >= total_frames: continue" (full only)
CameraDone(p, src, cam) ==
  variant = "full" /\ Existing(p, src, FirstKind(src), cam) >= NumFrames

\* head of the camera loop of an image/mask pass
XCam ==
  /\ pc = "x_cam"
  /\ UNCHANGED sideVars
  /\ IF xcam >= NumCams
       THEN IF variant = "full" /\ xsrc = "raw" /\ "anno" \in got
              THEN /\ xsrc' = "anno" /\ xcam' = 0 /\ pc' = "x_cam"
                   /\ UNCHANGED <<xframe, xkind>>
              ELSE pc' = "x_finish" /\ UNCHANGED posVars
       ELSE IF CameraDone(perf, xsrc, xcam)
              THEN /\ xcam' = xcam + 1 /\ pc' = "x_cam"
                   /\ UNCHANGED <<xsrc, xframe, xkind>>
              ELSE /\ pc' = "x_frame" /\ xframe' = 0
                   /\ xkind' = FirstKind(xsrc)
                   /\ UNCHANGED <<xsrc, xcam>>
  /\ ran' = ran \cup {perf}
  /\ Stay
  /\ ManifestUnchanged
  /\ UNCHANGED <<xUnchanged, files, partial, markers, wrote, rewrote, enteredMarked,
                 enteredFresh, finished>>

\* the frame loop without its try/except: a failed decode raises
FrameOutcomeRaises(p, src, kind, cam, frame) ==
  IF FramePath(p, src, kind, cam, frame) \in files THEN "exists"
  ELSE IF Decodable(src, kind, cam, frame) THEN "write" ELSE "raise"

\* one image or mask of one frame: existence check, get_img, cv2.imwrite,
\* inside try/except
FrameOutcome(p, src, kind, cam, frame) ==
  IF FramePath(p, src, kind, cam, frame) \in files THEN "exists"
  ELSE IF Decodable(src, kind, cam, frame) THEN "write"
  ELSE "skip"

XFrame ==
  /\ pc = "x_frame"
  /\ UNCHANGED sideVars
  /\ LET o == FrameOutcome(perf, xsrc, xkind, xcam, xframe) IN
     /\ files' = IF o = "write"
                   THEN files \cup {FramePath(perf, xsrc, xkind, xcam, xframe)}
                   ELSE files
     /\ wrote' = IF o = "write" THEN wrote \cup {perf} ELSE wrote
     /\ UNCHANGED <<partial, rewrote>>
     /\ IF o = "raise"
          THEN RaiseOut("decode")
          ELSE /\ ManifestUnchanged /\ Stay
               /\ IF xkind = "color" /\ "masks" \in Modalities
                    THEN /\ xkind' = "mask" /\ pc' = "x_frame"
                         /\ UNCHANGED <<xsrc, xcam, xframe>>
                    ELSE IF xframe < NumFrames - 1
                      THEN /\ xframe' = xframe + 1
                           /\ xkind' = FirstKind(xsrc)
                           /\ pc' = "x_frame"
                           /\ UNCHANGED <<xsrc, xcam>>
                      ELSE /\ xcam' = xcam + 1 /\ pc' = "x_cam"
                           /\ UNCHANGED <<xsrc, xframe, xkind>>
  /\ UNCHANGED <<xUnchanged, markers, ran, enteredMarked, enteredFresh,
                 finished>>

\* size of the output tree, then the .extraction_complete marker
XFinish ==
  /\ pc = "x_finish"
  /\ UNCHANGED sideVars
  /\ markers' = markers \cup {perf}
  /\ wrote' = wrote \cup {perf}
  /\ UNCHANGED rewrote
  /\ pc' = "x_manifest" /\ Stay
  /\ ManifestUnchanged
  /\ UNCHANGED <<xUnchanged, files, partial, posVars, ran, enteredMarked,
                 enteredFresh, finished>>

\* update_manifest(..., 'completed', cameras=len(camera_list), ...)
XManifest ==
  /\ pc = "x_manifest"
  /\ UNCHANGED sideVars
  /\ WriteManifest(perf, "completed", NumCams, "")
  /\ finished' = finished \cup {[perf |-> perf, got |-> got]}
  /\ pc' = "post_extract" /\ Stay
  /\ UNCHANGED <<xUnchanged, files, partial, markers, posVars, ran, wrote, rewrote,
                 enteredMarked, enteredFresh>>

\* the archive copies process_subject removes after an extraction returned:
\* smc_path.unlink() (streaming), cleanup_temp_files(subject, performance)
\* (full), both under delete_smc_after_extraction
RemovedAfterExtraction(p) ==
  IF ~delete_smc_after_extraction THEN {}
  ELSE IF variant = "streaming" THEN {SmcFile(p, "raw")}
  ELSE {SmcFile(p, "anno"), SmcFile(p, "raw")}

PostExtract ==
  /\ pc = "post_extract"
  /\ UNCHANGED sideVars
  /\ temp_smc' = temp_smc \ RemovedAfterExtraction(perf)
  /\ NextTask
  /\ ManifestUnchanged
  /\ UNCHANGED <<cfgVars, files, partial, markers, runs, perf, attempt, slept, dlKind,
                 dlResult, got, downloaded_files, obsVars>>

\* StreamingExtractor.cleanup_temp_files(subject_id): every {subject}_*.smc
RemovedAtSubjectEnd == temp_smc

S_Cleanup ==
  /\ variant = "streaming" /\ pc = "cleanup"
  /\ UNCHANGED sideVars
  /\ temp_smc' = temp_smc \ RemovedAtSubjectEnd
  /\ pc' = "done"
  /\ ManifestUnchanged
  /\ UNCHANGED <<cfgVars, files, partial, markers, runs, loopVars, posVars, obsVars>>

Next ==
  \/ StartRun
  \/ Kill
  \/ KillMidWrite
  \/ KillMidSave
  \/ ProcessSubject
  \/ S_PerfLoop
  \/ F_PerfLoop
  \/ DownloadAttempt
  \/ RetrySleep
  \/ DownloadExhausted
  \/ AfterDownload
  \/ S_ExtractLoop
  \/ ExtractEnter
  \/ XMetadata
  \/ XCalibration
  \/ XCam
  \/ XFrame
  \/ XFinish
  \/ XManifest
  \/ PostExtract
  \/ S_Cleanup

Spec == Init /\ [][Next]_vars

\* runs that are never killed: every process runs process_subject to its end
NextUninterrupted ==
  \/ StartRun
  \/ ProcessSubject
  \/ S_PerfLoop
  \/ F_PerfLoop
  \/ DownloadAttempt
  \/ RetrySleep
  \/ DownloadExhausted
  \/ AfterDownload
  \/ S_ExtractLoop
  \/ ExtractEnter
  \/ XMetadata
  \/ XCalibration
  \/ XCam
  \/ XFrame
  \/ XFinish
  \/ XManifest
  \/ PostExtract
  \/ S_Cleanup

SpecUninterrupted == Init /\ [][NextUninterrupted]_vars

TypeOK ==
  /\ pc \in {"dead", "done", "process_subject", "perf_loop", "download",
             "retry_sleep", "download_done", "extract_loop", "extract_enter",
             "x_metadata", "x_calibration", "x_cam", "x_frame", "x_finish",
             "x_manifest", "post_extract", "cleanup"}
  /\ runs \in 0 .. MaxRuns
  /\ attempt \in 0 .. max_retries

\* ------------------------------------------------ run: the subject loop
\* no process_subject is under way
MainIdle ==
  /\ cfg_subject = <<0, 1>> /\ performances = <<"s1_all">>
  /\ separate_sources = TRUE /\ force_reextract = FALSE
  /\ delete_smc_after_extraction = TRUE /\ max_retries = MaxRetriesCfg
  /\ calibGroup = TRUE /\ undecodable = {}
  /\ files = {} /\ partial = {} /\ markers = {} /\ temp_smc = {}
  /\ manifest_csv = <<>>
  /\ pc = "done" /\ runs = 0 /\ manifest_df = <<>>
  /\ perfIdx = 1 /\ perf = NoPerf /\ attempt = 0 /\ slept = FALSE
  /\ dlKind = "raw" /\ dlResult = "pending" /\ got = {}
  /\ downloaded_files = <<>> /\ extIdx = 1
  /\ xsrc = "raw" /\ xcam = 0 /\ xframe = 0 /\ xkind = "color"
  /\ invoked = {} /\ ran = {} /\ wrote = {} /\ rewrote = {} /\ updated = {}
  /\ enteredMarked = {}
  /\ enteredFresh = {} /\ finished = {} /\ noArchive = {}
  /\ completedAtStart = {}
  /\ lastRow = [p \in PerfSet |-> <<>>]

InitRun ==
  /\ variant \in {"streaming", "full"}
  /\ MainIdle /\ CamIdle /\ ReaderIdle
  /\ subjects \in SubjectLists
  /\ min_free_space_gb \in FreeLevels
  /\ free_gb \in FreeLevels
  /\ run_pc = "run_loop" /\ subj_i = 1
  /\ lowAtStart = {} /\ storageChecks = [s \in AllSubjects |-> 0]
  /\ transfers = {} /\ extractions = {} /\ rowWrites = {}

CurrentSubject == subjects[subj_i]

\* a storage check that lets every subject through
InsufficientStorageNever(free, floor) == FALSE

\* check_storage_space (streaming) / process_subject (full): the test of
\* the free space against the floor
InsufficientStorage(free, floor) == free < floor

\* run: loop head; the free space is what the disk has when the subject is
\* started
R_NextSubject ==
  /\ run_pc = "run_loop"
  /\ IF subj_i > Len(subjects)
       THEN run_pc' = "run_end" /\ UNCHANGED free_gb
       ELSE run_pc' = "process_subject" /\ free_gb' \in FreeLevels
  /\ UNCHANGED <<variant, mainVars, camVars, readerVars, subjects, min_free_space_gb,
                 subj_i, lowAtStart, storageChecks, transfers, extractions,
                 rowWrites>>

\* process_subject: check_storage_space before the performance loop.  The
\* streaming check raises, and run catches the exception and continues;
\* the full process_subject returns.
R_CheckStorage ==
  /\ run_pc = "process_subject"
  /\ storageChecks' = [storageChecks EXCEPT ![CurrentSubject] = @ + 1]
  /\ lowAtStart' = IF free_gb < min_free_space_gb
                     THEN lowAtStart \cup {CurrentSubject}
                     ELSE lowAtStart
  /\ IF InsufficientStorage(free_gb, min_free_space_gb)
       THEN run_pc' = "run_loop" /\ subj_i' = subj_i + 1
       ELSE run_pc' = "downloads" /\ UNCHANGED subj_i
  /\ UNCHANGED <<variant, mainVars, camVars, readerVars, subjects, min_free_space_gb,
                 free_gb, transfers, extractions, rowWrites>>

\* process_subject: the transfers of the subject's performances; a failed
\* download is recorded download_failed
R_Downloads ==
  /\ run_pc = "downloads"
  /\ transfers' = transfers \cup {CurrentSubject}
  /\ \E ok \in BOOLEAN :
       IF ok
         THEN run_pc' = "extractions" /\ UNCHANGED <<subj_i, rowWrites>>
         ELSE /\ run_pc' = "run_loop" /\ subj_i' = subj_i + 1
              /\ rowWrites' = rowWrites \cup {CurrentSubject}
  /\ UNCHANGED <<variant, mainVars, camVars, readerVars, subjects, min_free_space_gb,
                 free_gb, lowAtStart, storageChecks, extractions>>

\* process_subject: the extractions of the downloaded performances, each
\* ending with its manifest row
R_Extractions ==
  /\ run_pc = "extractions"
  /\ extractions' = extractions \cup {CurrentSubject}
  /\ rowWrites' = rowWrites \cup {CurrentSubject}
  /\ run_pc' = "run_loop" /\ subj_i' = subj_i + 1
  /\ UNCHANGED <<variant, mainVars, camVars, readerVars, subjects, min_free_space_gb,
                 free_gb, lowAtStart, storageChecks, transfers>>

NextRun ==
  \/ R_NextSubject
  \/ R_CheckStorage
  \/ R_Downloads
  \/ R_Extractions

SpecRun == InitRun /\ [][NextRun]_vars

\* ------------------------------------------- cameras of one extraction
InitCameras ==
  /\ variant \in {"streaming", "full"}
  /\ MainIdle /\ RunIdle /\ ReaderIdle
  /\ camera_config \in CameraConfigs
  /\ camera_group \in (SUBSET CamIds) \ {{}}
  /\ calibration_group \in SUBSET CamIds
  /\ num_device \in {Cardinality(camera_group), NumCamIds}
  /\ cam_pc = "select" /\ camera_list = {} /\ todo = {}
  /\ all_cameras_npy = {} /\ cam_npy = {} /\ image_cams = {}
  /\ cameras_extracted = None /\ task_status = "pending"

camInputs == <<camera_config, camera_group, calibration_group, num_device>>

\* camera_list: the streaming extractor keeps the requested cameras that
\* are keys of the archive's Camera group, the full extractor takes the
\* request (or range(num_device)) as it is
SelectCameras(cfg, available_cameras, total_cameras) ==
  IF variant = "streaming"
    THEN IF cfg.all THEN available_cameras
                    ELSE cfg.ids \cap available_cameras
    ELSE IF cfg.all THEN 0 .. (total_cameras - 1) ELSE cfg.ids

\* the camera ids of the dictionary saved as all_cameras.npy
SavedCalibrations(all_calibs, available_cameras) ==
  IF variant = "streaming" THEN all_calibs \cap available_cameras
                           ELSE all_calibs

C_SelectCameras ==
  /\ cam_pc = "select"
  /\ camera_list' = SelectCameras(camera_config, camera_group, num_device)
  /\ cam_pc' = "calibration"
  /\ UNCHANGED <<variant, mainVars, runVars, readerVars, camInputs, todo,
                 all_cameras_npy, cam_npy, image_cams, cameras_extracted,
                 task_status>>

\* calibration: all_cameras.npy, then one file per camera of camera_list.
\* The full extractor calls get_Calibration for each camera of the list,
\* in the order of the list, and its assertion ends the extraction at the
\* first camera without a calibration entry.
C_Calibration ==
  /\ cam_pc = "calibration"
  /\ all_cameras_npy' = SavedCalibrations(calibration_group, camera_group)
  /\ IF variant = "streaming"
       THEN /\ cam_npy' = camera_list \cap all_cameras_npy'
            /\ cam_pc' = "images" /\ todo' = camera_list
            /\ UNCHANGED task_status
       ELSE IF camera_list \subseteq calibration_group
         THEN /\ cam_npy' = camera_list
              /\ cam_pc' = "images" /\ todo' = camera_list
              /\ UNCHANGED task_status
         ELSE /\ cam_npy' \in SUBSET (camera_list \cap calibration_group)
              /\ cam_pc' = "end" /\ task_status' = "failed"
              /\ UNCHANGED todo
  /\ UNCHANGED <<variant, mainVars, runVars, readerVars, camInputs, camera_list,
                 image_cams, cameras_extracted>>

\* images of the next camera of camera_list: get_img asserts that the
\* camera is a key of the Camera group, and the frame loop catches it
C_Images ==
  /\ cam_pc = "images" /\ todo # {}
  /\ LET cam_id == MinOf(todo) IN
       /\ image_cams' = IF cam_id \in camera_group
                          THEN image_cams \cup {cam_id} ELSE image_cams
       /\ todo' = todo \ {cam_id}
  /\ UNCHANGED <<variant, mainVars, runVars, readerVars, camInputs, cam_pc, camera_list,
                 all_cameras_npy, cam_npy, cameras_extracted, task_status>>

\* update_manifest(..., 'completed', cameras=len(camera_list))
C_Complete ==
  /\ cam_pc = "images" /\ todo = {}
  /\ cameras_extracted' = Cardinality(camera_list)
  /\ task_status' = "completed"
  /\ cam_pc' = "end"
  /\ UNCHANGED <<variant, mainVars, runVars, readerVars, camInputs, camera_list, todo,
                 all_cameras_npy, cam_npy, image_cams>>

NextCameras ==
  \/ C_SelectCameras
  \/ C_Calibration
  \/ C_Images
  \/ C_Complete

SpecCameras == InitCameras /\ [][NextCameras]_vars

\* ------------------------------------ SMCReader.get_Calibration_all
\* Calibration groups: every camera with D, K and RT, or (malformed) one
\* camera lacking one of the three datasets
WellFormedGroups ==
  {[ci \in cs |-> MatrixNames] : cs \in (SUBSET Cams) \ {{}}}

MalformedGroups ==
  UNION {{[ci \in cs |-> IF ci = bad THEN MatrixNames \ {m} ELSE MatrixNames] :
            bad \in cs, m \in MatrixNames} : cs \in (SUBSET Cams) \ {{}}}

notCal == <<variant, mainVars, runVars, camVars, accVars, maskVars>>

InitCalls ==
  /\ variant = "full"
  /\ MainIdle /\ RunIdle /\ CamIdle /\ AccIdle /\ MaskIdle
  /\ calibration_dict = [is_none |-> TRUE, d |-> EmptyDict]
  /\ caller_pc = [t \in Callers |-> "idle"]
  /\ c_keys = [t \in Callers |-> {}]
  /\ c_ci = [t \in Callers |-> None]
  /\ c_mt = [t \in Callers |-> 1]
  /\ returned_dict = [t \in Callers |-> EmptyDict]
  /\ loads = 0

\* one caller at a time, on any archive
InitReader ==
  /\ InitCalls
  /\ concurrent_callers = FALSE
  /\ smc_Calibration \in WellFormedGroups \cup MalformedGroups

\* callers in threads, on a well-formed archive
InitReaderConcurrent ==
  /\ InitCalls
  /\ concurrent_callers = TRUE
  /\ smc_Calibration \in WellFormedGroups

\* a cache test that never finds the cache filled
CacheHitNever(cache) == FALSE

\* if self.__calibration_dict__ is not None
CacheHit(cache) == ~cache.is_none

\* dict.setdefault(ci, dict())
setdefault(d, ci) ==
  [x \in DOMAIN d \cup {ci} |-> IF x \in DOMAIN d THEN d[x] ELSE {}]

\* get_Calibration(Camera_id): the datasets read for one camera, read from
\* the archive at every call
get_Calibration(Camera_id) == smc_Calibration[Camera_id]

\* get_Calibration raises: the assertion on the camera id, or the KeyError
\* of a missing dataset
get_Calibration_raises(Camera_id) ==
  \/ Camera_id \notin DOMAIN smc_Calibration
  \/ smc_Calibration[Camera_id] # MatrixNames

\* a caller calls get_Calibration_all
GCA_Call ==
  \E t \in Callers :
    /\ caller_pc[t] = "idle"
    /\ \/ concurrent_callers
       \/ \A u \in Callers \ {t} : caller_pc[u] \in {"idle", "returned", "raised"}
    /\ caller_pc' = [caller_pc EXCEPT ![t] = "check"]
    /\ UNCHANGED <<notCal, smc_Calibration, calibration_dict, c_keys, c_ci,
                   c_mt, returned_dict, loads, concurrent_callers>>

\* the test of the cache; a filled cache is returned as it is
GCA_CheckCache ==
  \E t \in Callers :
    /\ caller_pc[t] = "check"
    /\ IF CacheHit(calibration_dict)
         THEN /\ caller_pc' = [caller_pc EXCEPT ![t] = "returned"]
              /\ returned_dict' =
                   [returned_dict EXCEPT ![t] = calibration_dict.d]
         ELSE /\ caller_pc' = [caller_pc EXCEPT ![t] = "init_cache"]
              /\ UNCHANGED returned_dict
    /\ UNCHANGED <<notCal, smc_Calibration, calibration_dict, c_keys, c_ci,
                   c_mt, loads, concurrent_callers>>

\* self.__calibration_dict__ = dict(), and the keys of the Calibration
\* group for the loop
GCA_InitCache ==
  \E t \in Callers :
    /\ caller_pc[t] = "init_cache"
    /\ calibration_dict' = [is_none |-> FALSE, d |-> EmptyDict]
    /\ loads' = loads + 1
    /\ c_keys' = [c_keys EXCEPT ![t] = DOMAIN smc_Calibration]
    /\ caller_pc' = [caller_pc EXCEPT ![t] = "camera"]
    /\ UNCHANGED <<notCal, smc_Calibration, c_ci, c_mt, returned_dict,
                   concurrent_callers>>

\* the loop over the cameras: setdefault for the next camera, or the
\* return of the cache after the last one
GCA_NextCamera ==
  \E t \in Callers :
    /\ caller_pc[t] = "camera"
    /\ IF c_keys[t] = {}
         THEN /\ caller_pc' = [caller_pc EXCEPT ![t] = "returned"]
              /\ returned_dict' =
                   [returned_dict EXCEPT ![t] = calibration_dict.d]
              /\ UNCHANGED <<calibration_dict, c_ci, c_mt>>
         ELSE LET ci == MinOf(c_keys[t]) IN
              /\ calibration_dict' =
                   [calibration_dict EXCEPT !.d = setdefault(@, ci)]
              /\ c_ci' = [c_ci EXCEPT ![t] = ci]
              /\ c_mt' = [c_mt EXCEPT ![t] = 1]
              /\ caller_pc' = [caller_pc EXCEPT ![t] = "matrix"]
              /\ UNCHANGED returned_dict
    /\ UNCHANGED <<notCal, smc_Calibration, c_keys, loads,
                   concurrent_callers>>

\* the loop over D, K, RT: the dataset is read from the archive and stored
\* under the camera's entry of the cache; a missing dataset, or a cache
\* that has no entry for the camera, is a KeyError
GCA_LoadMatrix ==
  \E t \in Callers :
    /\ caller_pc[t] = "matrix"
    /\ LET ci == c_ci[t] IN
       IF c_mt[t] > Len(Matrices)
         THEN /\ c_keys' = [c_keys EXCEPT ![t] = @ \ {ci}]
              /\ caller_pc' = [caller_pc EXCEPT ![t] = "camera"]
              /\ UNCHANGED <<calibration_dict, c_mt>>
         ELSE LET mt == Matrices[c_mt[t]] IN
              IF \/ mt \notin smc_Calibration[ci]
                 \/ ci \notin DOMAIN calibration_dict.d
                THEN /\ caller_pc' = [caller_pc EXCEPT ![t] = "raised"]
                     /\ UNCHANGED <<calibration_dict, c_keys, c_mt>>
                ELSE /\ calibration_dict' =
                          [calibration_dict EXCEPT !.d[ci] = @ \cup {mt}]
                     /\ c_mt' = [c_mt EXCEPT ![t] = @ + 1]
                     /\ UNCHANGED <<caller_pc, c_keys>>
    /\ UNCHANGED <<notCal, smc_Calibration, c_ci, returned_dict, loads,
                   concurrent_callers>>

NextReader ==
  \/ GCA_Call
  \/ GCA_CheckCache
  \/ GCA_InitCache
  \/ GCA_NextCamera
  \/ GCA_LoadMatrix

SpecReader == InitReader /\ [][NextReader]_vars

SpecReaderConcurrent == InitReaderConcurrent /\ [][NextReader]_vars

\* ----------------------------------------- SMCReader: the accessors
notAcc == <<variant, mainVars, runVars, camVars, calVars, maskVars>>

\* the kind of performance: the letters before the first '_' of
\* performance_part ("e": expression, "s": speech, "h": neither)
PerformanceKinds == {"e", "s", "h"}

\* smc["Camera"]: the cameras of the archive with the frames each holds
CameraGroups ==
  UNION {[cs -> SUBSET Frames] : cs \in SUBSET Cams}

FullCamera == [c \in Cams |-> Frames]

InitAccessors ==
  /\ variant = "full"
  /\ MainIdle /\ RunIdle /\ CamIdle /\ CalIdle /\ MaskIdle
  /\ performance_part \in PerformanceKinds
  /\ smc_groups \in SUBSET GatedGroups
  /\ smc_Camera \in CameraGroups
  /\ (smc_groups = GatedGroups \/ smc_Camera = FullCamera)
  /\ request = NoRequest /\ acc_result = "pending"

\* get_audio: None unless a speech performance; the audio of camera 00
get_audio ==
  IF performance_part # "s" THEN "none"
  ELSE IF "audio" \in smc_groups THEN "data" ELSE "raises"

\* get_FLAME: None unless an expression performance with a FLAME group
get_FLAME ==
  IF performance_part # "e" THEN "none"
  ELSE IF "FLAME" \notin smc_groups THEN "none" ELSE "data"

\* get_uv: None unless an expression performance with a UV_texture group
get_uv ==
  IF performance_part # "e" THEN "none"
  ELSE IF "UV_texture" \notin smc_groups THEN "none" ELSE "data"

\* get_scanmesh: None unless an expression performance; smc["Scan"]
get_scanmesh ==
  IF performance_part # "e" THEN "none"
  ELSE IF "Scan" \in smc_groups THEN "data" ELSE "raises"

\* get_scanmask(Camera_id): the assertion on the camera, smc["ScanMask"]
get_scanmask(Camera_id) ==
  IF Camera_id \notin DOMAIN smc_Camera THEN "raises"
  ELSE IF "ScanMask" \in smc_groups THEN "data" ELSE "raises"

\* get_img(Camera_id, Image_type, Frame_id) for one frame: the assertions
\* on the camera and on the frame, then the decoded image
get_img(Camera_id, Frame_id) ==
  IF Camera_id \notin DOMAIN smc_Camera THEN "raises"
  ELSE IF Frame_id \notin smc_Camera[Camera_id] THEN "raises"
  ELSE "data"

GatedRequests ==
  {[fn |-> f, cam |-> None, frame |-> None] :
     f \in {"get_audio", "get_FLAME", "get_uv", "get_scanmesh"}}
    \cup {[fn |-> "get_scanmask", cam |-> c, frame |-> None] : c \in Cams}

ImageRequests ==
  {[fn |-> "get_img", cam |-> c, frame |-> f] : c \in Cams, f \in Frames}

\* a caller calls one of the gated accessors
CallGatedAccessor ==
  /\ request = NoRequest
  /\ \E rq \in GatedRequests :
       /\ request' = rq
       /\ acc_result' =
            CASE rq.fn = "get_audio" -> get_audio
              [] rq.fn = "get_FLAME" -> get_FLAME
              [] rq.fn = "get_uv" -> get_uv
              [] rq.fn = "get_scanmesh" -> get_scanmesh
              [] rq.fn = "get_scanmask" -> get_scanmask(rq.cam)
  /\ UNCHANGED <<notAcc, performance_part, smc_groups, smc_Camera>>

\* a caller calls get_img for one frame
CallGetImg ==
  /\ request = NoRequest
  /\ \E rq \in ImageRequests :
       /\ request' = rq
       /\ acc_result' = get_img(rq.cam, rq.frame)
  /\ UNCHANGED <<notAcc, performance_part, smc_groups, smc_Camera>>

NextAccessors ==
  \/ CallGatedAccessor
  \/ CallGetImg

SpecAccessors == InitAccessors /\ [][NextAccessors]_vars

\* --------------------------------- mask entries and their two decodes
notMask == <<variant, mainVars, runVars, camVars, calVars, accVars>>

GrayLevels == 0 .. MaxGray

\* an encoded image: its pixels, each with the channels it stores (one for
\* a grayscale PNG, three in B, G, R order for a colour one)
GrayEntries ==
  UNION {[1 .. n -> {<<v>> : v \in GrayLevels}] : n \in 1 .. MaxPixels}

ColourEntries ==
  [1 .. 1 -> {<<b, g, r>> : b \in GrayLevels, g \in GrayLevels,
                             r \in GrayLevels}]

\* a mask entry stores one level per pixel: a grayscale PNG, or a colour
\* one whose three channels are equal
ValidMaskEntry(e) ==
  \A i \in DOMAIN e : \A k \in DOMAIN e[i] : e[i][k] = e[i][1]

InitMask ==
  /\ variant = "full"
  /\ MainIdle /\ RunIdle /\ CamIdle /\ CalIdle /\ AccIdle
  /\ mask_entry \in GrayEntries \cup ColourEntries
  /\ direct_out = <<>> /\ max_out = <<>>
  /\ mask_done = {}

imdecode_COLOR_Black(e) ==
  [i \in DOMAIN e |-> IF Len(e[i]) = 1 THEN <<0, 0, 0>> ELSE e[i]]

\* cv2.imdecode(bytes, IMREAD_COLOR): three channels per pixel, a stored
\* gray level copied to each
imdecode_COLOR(e) ==
  [i \in DOMAIN e |-> IF Len(e[i]) = 1
                        THEN <<e[i][1], e[i][1], e[i][1]>> ELSE e[i]]

\* cv2.imdecode(bytes, IMREAD_GRAYSCALE): one level per pixel, the stored
\* one or the luma of the stored colour
imdecode_GRAYSCALE(e) ==
  [i \in DOMAIN e |->
     IF Len(e[i]) = 1 THEN e[i][1]
     ELSE (114 * e[i][1] + 587 * e[i][2] + 299 * e[i][3] + 500) \div 1000]

Max3(a, b, c) ==
  IF a >= b /\ a >= c THEN a ELSE IF b >= c THEN b ELSE c

\* np.max(img_color, 2).astype(np.uint8)
np_max(img) ==
  [i \in DOMAIN img |-> Max3(img[i][1], img[i][2], img[i][3]) % 256]

\* extract_mask_optimized_method: the entry decoded to a single channel
DecodeDirect ==
  /\ "direct" \notin mask_done
  /\ direct_out' = imdecode_GRAYSCALE(mask_entry)
  /\ mask_done' = mask_done \cup {"direct"}
  /\ UNCHANGED <<notMask, mask_entry, max_out>>

\* get_img for a mask, extract_mask_current_method: the entry decoded to
\* three channels and reduced to their maximum
DecodeMax ==
  /\ "max" \notin mask_done
  /\ max_out' = np_max(imdecode_COLOR(mask_entry))
  /\ mask_done' = mask_done \cup {"max"}
  /\ UNCHANGED <<notMask, mask_entry, direct_out>>

NextMask ==
  \/ DecodeDirect
  \/ DecodeMax

SpecMask == InitMask /\ [][NextMask]_vars

\* ------------------------------------------------------------ properties
\* the row last written for a performance, as the writing process saw it
Recorded(p) == lastRow[p] # <<>>

RecordedStatus(p) == IF Recorded(p) THEN lastRow[p][1].status ELSE "none"

\* the files an extraction of performance p from the archives g leaves
\* when every write of every selected modality has happened
ExpectedFiles(p, g) ==
  LET root == Root(IF "anno" \in g THEN "anno" ELSE "raw")
  IN  {OutPath(p, root, "metadata", None, None)}
      \cup (IF CalibrationSource \in g THEN CalibrationFiles(p) ELSE {})
      \cup {FramePath(p, e.src, e.kind, e.cam, e.frame) :
              e \in {x \in Entries(variant) \ undecodable : x.src \in g}}

\* C1: a task whose manifest row says completed when a run starts, with
\* force_reextract unset, gets no transfer invocation and no extractor in
\* that run.
C1_CompletedTaskSkipped ==
  \A p \in completedAtStart :
    ~force_reextract => p \notin invoked /\ p \notin ran

\* C2: every row written to the manifest before a kill is found by a
\* restarted process under the same (subject, performance) key with the same
\* status, camera count and error, also for a zero-padded subject id, and a
\* task recorded completed is not run again.
C2_ManifestSurvivesRestart ==
  pc \notin {"dead"} =>
    \A p \in PerfSet :
      Recorded(p) /\ p \notin updated =>
        /\ Mask(manifest_df, Subject, p) # {}
        /\ RowOf(manifest_df, p).status = lastRow[p][1].status
        /\ RowOf(manifest_df, p).cameras_extracted
             = lastRow[p][1].cameras_extracted
        /\ RowOf(manifest_df, p).error = lastRow[p][1].error
        /\ (lastRow[p][1].status = "completed" /\ ~force_reextract
              => p \notin invoked /\ p \notin ran)

NoDuplicateKeys(df) ==
  \A i, j \in DOMAIN df :
    i # j => ~(df[i].subject = df[j].subject
               /\ df[i].performance = df[j].performance)

\* C3: the manifest holds at most one row per (subject, performance), in
\* memory and as loaded back from the saved file, across any sequence of
\* updates, saves and loads.
C3_OneRowPerTask ==
  /\ NoDuplicateKeys(manifest_df)
  /\ NoDuplicateKeys(load_manifest)

\* C4: entering the extraction of a task whose completion marker exists, with
\* force_reextract unset, runs no extractor, writes no file and leaves the
\* task's manifest row alone.
C4_MarkerShortCircuits ==
  \A p \in enteredMarked :
    ~force_reextract => p \notin ran /\ p \notin wrote /\ p \notin updated

\* C4 happens: a run got past the extraction of a marked task without force
C4_Witness ==
  /\ ~force_reextract
  /\ pc = "post_extract"
  /\ perf \in enteredMarked
  /\ FilesOf(perf) # {}

\* C5: an extraction that was interrupted between two file writes and is run
\* again ends with every file an uninterrupted extraction writes.
C5_ResumeCompletesFiles ==
  \A r \in finished : ExpectedFiles(r.perf, r.got) \subseteq files

\* C6: a frame that cannot be decoded is skipped: every other frame of every
\* selected modality is written, the task is never recorded failed, and the
\* run ends with the task marked and recorded completed.
C6_DecodeFailureIsolated ==
  /\ \A r \in finished :
       /\ ExpectedFiles(r.perf, r.got) \subseteq files
       /\ r.perf \in markers
       /\ RecordedStatus(r.perf) = "completed"
  /\ undecodable # {} =>
       /\ \A p \in ran : RecordedStatus(p) # "failed"
       /\ pc = "done" => \A p \in ran : \E r \in finished : r.perf = p

\* C6 happens: a run ended after extracting from an archive one of whose
\* frames could not be decoded
C6_Witness ==
  /\ pc = "done"
  /\ \E r \in finished : \E e \in undecodable :
       /\ e.src \in r.got
       /\ FramePath(r.perf, e.src, e.kind, e.cam, e.frame) \notin files
       /\ Cardinality(FilesOf(r.perf)) > 1

\* C7: an error inside any modality extractor is caught inside the
\* extraction, so a task whose extractors ran is never recorded failed.
C7_ExtractorErrorsCaught ==
  \A p \in ran \cap updated : RecordedStatus(p) # "failed"

PositionOf(p) == CHOOSE i \in DOMAIN performances : performances[i] = p

C9_BoundedRetriesWithDelay ==
  /\ attempt <= max_retries
  /\ pc = "download" /\ 0 < attempt /\ attempt < max_retries => slept
  /\ pc = "download_done" /\ dlResult = "failed" => attempt = max_retries

\* C10: a downloaded archive is deleted only with
\* delete_smc_after_extraction set and its task recorded completed.
C10_DeleteOnlyCompleted ==
  [][\A a \in temp_smc \ temp_smc' :
       delete_smc_after_extraction /\ RecordedStatus(a.perf) = "completed"]_vars

\* a task of the current run whose processing is over: no archive, a row
\* written at the end of its extraction, or skipped on its marker
Ended(q) ==
  \/ q \in noArchive
  \/ q \in updated
  \/ (q \in enteredMarked /\ ~force_reextract)

\* C12: while the archive of a performance is being downloaded, every
\* performance whose download was started before it has ended its whole
\* download and extraction sequence (or has failed).
C12_OnePerformanceAtATime ==
  pc \in {"download", "retry_sleep", "download_done"} =>
    \A q \in invoked \ {perf} : Ended(q)

ExtractionPcs == {"x_metadata", "x_calibration", "x_cam", "x_frame",
                  "x_finish", "x_manifest"}

\* the last image/mask pass of an extraction from the archives g
LastPass(g) ==
  IF variant = "full" /\ "anno" \in g THEN "anno" ELSE "raw"

LifecycleState ==
  /\ \A p \in ran : p \in invoked /\ p \notin noArchive
  /\ pc \in ExtractionPcs =>
       got # {} /\ \A k \in got : SmcFile(perf, k) \in temp_smc
  /\ pc \in {"x_finish", "x_manifest"} =>
       perf \in ran /\ xcam = NumCams /\ xsrc = LastPass(got)
  /\ pc = "x_manifest" => perf \in markers
  /\ \A r \in finished : r.perf \in markers /\ r.perf \in ran

LifecycleStep ==
  /\ markers' # markers => pc = "x_finish"
  /\ \A p \in updated \cap updated' : lastRow'[p] = lastRow[p]

C14_ForceReextractReruns ==
  (force_reextract /\ pc = "done" /\ perfIdx > Len(performances)) =>
    \A p \in completedAtStart :
      (p \in markers /\ \E i \in DOMAIN performances : performances[i] = p)
        => p \in invoked /\ (p \notin noArchive => p \in ran)

\* C15: with both archives of a task, no file written from the raw archive
\* makes the annotation pass skip a camera: in the extraction of a task
\* that had no output file, the annotation pass finds no mask of a camera
\* before it has written one.
C15_SourcesDisjoint ==
  (variant = "full" /\ pc = "x_cam" /\ xsrc = "anno" /\ xcam < NumCams
     /\ "raw" \in got /\ perf \in enteredFresh)
    => Existing(perf, "anno", "mask", xcam) = 0

\* C18: no per-camera or per-frame artifact that already exists is written
\* again.
C18_ExistingArtifactsKept == \A f \in rewrote : f.cam = None

\* C19: no task is completed by a run while its output tree holds a file
\* that a killed run left partially written.
C19_NoPartialFileKept ==
  \A r \in finished : \A f \in partial : f.perf # r.perf

\* C20: the manifest file holds, for every task, the row of the last
\* update_manifest call that returned.
C20_ManifestCrashConsistent ==
  \A p \in PerfSet :
    Recorded(p) =>
      \E i \in DOMAIN manifest_csv :
        /\ manifest_csv[i].performance = p
        /\ manifest_csv[i].status = lastRow[p][1].status

PositionOfSubject(s) == CHOOSE i \in DOMAIN subjects : subjects[i] = s

LowStorageState ==
  /\ \A s \in lowAtStart :
       /\ s \notin transfers /\ s \notin extractions /\ s \notin rowWrites
       /\ storageChecks[s] = 1
       /\ subj_i > PositionOfSubject(s)
  /\ run_pc = "run_end" =>
       \A i \in DOMAIN subjects : storageChecks[subjects[i]] = 1

LowStorageStep ==
  (run_pc = "process_subject" /\ free_gb < min_free_space_gb) =>
     (run_pc' = "run_loop" /\ subj_i' = subj_i + 1)

\* C11: a subject started with free space below min_free_space_gb gets no
\* transfer, no extractor and no manifest row, its storage check is made
\* once, and the loop goes on to the next subject: a run that has ended
\* has started every configured subject.
C11_LowStorageSkipsSubject == [](LowStorageState) /\ [][LowStorageStep]_vars

\* C11 happens: a run ended with a subject skipped for storage and a later
\* subject extracted
C11_Witness ==
  /\ run_pc = "run_end"
  /\ \E s \in lowAtStart : \E t \in extractions :
       PositionOfSubject(t) > PositionOfSubject(s)

\* C16: the camera ids saved in all_cameras.npy are ids of the archive's
\* camera group.
C16_AllCamerasWithinCameraGroup == all_cameras_npy \subseteq camera_group

\* the requested cameras that the archive's camera group holds
RequestedPresent ==
  IF camera_config.all THEN camera_group
                       ELSE camera_config.ids \cap camera_group

\* C17: the completed row's cameras_extracted is the number of requested
\* cameras that are in the camera group, and no image is written for a
\* camera that is not in it.
C17_CamerasExtractedCountsPresent ==
  /\ image_cams \subseteq camera_group
  /\ task_status = "completed" =>
       cameras_extracted = Cardinality(RequestedPresent)

\* the mapping of a well-formed Calibration group
FullMapping == [ci \in DOMAIN smc_Calibration |-> MatrixNames]

\* C21: calls of get_Calibration_all made one after the other on one
\* handle return equal data, and the Calibration group is loaded at most
\* once for the handle.
C21_CalibrationMemoized ==
  /\ loads <= 1
  /\ \A t, u \in Callers :
       (caller_pc[t] = "returned" /\ caller_pc[u] = "returned")
         => returned_dict[t] = returned_dict[u]

\* C21 happens: two calls have returned the loaded mapping
C21_Witness ==
  /\ loads = 1
  /\ \E t, u \in Callers :
       /\ t # u
       /\ caller_pc[t] = "returned" /\ caller_pc[u] = "returned"
       /\ returned_dict[t] = FullMapping

\* C22: when the callers make their first calls in threads, the
\* Calibration group is loaded once, no call raises, and every call that
\* returns gives the full mapping.
C22_ConcurrentFirstCallsLoadOnce ==
  /\ loads <= 1
  /\ \A t \in Callers : caller_pc[t] # "raised"
  /\ \A t \in Callers :
       caller_pc[t] = "returned" => returned_dict[t] = FullMapping

\* C23: once a get_Calibration_all call has ended, the cache has the keys
\* of the Calibration group, and its entry for a camera is what
\* get_Calibration reads for that camera.
C23_CacheEqualsFreshRead ==
  (\E t \in Callers : caller_pc[t] \in {"returned", "raised"}) =>
    /\ ~calibration_dict.is_none
    /\ DOMAIN calibration_dict.d = DOMAIN smc_Calibration
    /\ \A ci \in DOMAIN calibration_dict.d :
         ~get_Calibration_raises(ci) =>
            calibration_dict.d[ci] = get_Calibration(ci)

\* C30: after a get_Calibration_all call that raised, no call on the handle
\* returns a mapping that lacks a camera of the Calibration group or one of
\* the matrices of a camera.
C30_NoPartialCacheAfterFailure ==
  (\E t \in Callers : caller_pc[t] = "raised") =>
    \A u \in Callers :
      caller_pc[u] = "returned" =>
        /\ DOMAIN returned_dict[u] = DOMAIN smc_Calibration
        /\ \A ci \in DOMAIN returned_dict[u] :
             returned_dict[u][ci] = MatrixNames

\* the archive lacks what the requested gated accessor reads: the kind of
\* performance is not the accessor's, or the group is not in the archive
LacksCapability(rq) ==
  CASE rq.fn = "get_audio" ->
         performance_part # "s" \/ "audio" \notin smc_groups
    [] rq.fn = "get_FLAME" ->
         performance_part # "e" \/ "FLAME" \notin smc_groups
    [] rq.fn = "get_uv" ->
         performance_part # "e" \/ "UV_texture" \notin smc_groups
    [] rq.fn = "get_scanmesh" ->
         performance_part # "e" \/ "Scan" \notin smc_groups
    [] rq.fn = "get_scanmask" -> "ScanMask" \notin smc_groups
    [] OTHER -> FALSE

\* C24: a gated accessor called on an archive that lacks its capability
\* returns None.
C24_GatedAccessorReturnsNone ==
  (request \in GatedRequests /\ LacksCapability(request))
    => acc_result = "none"

\* C25: get_img for one frame of a camera or a frame that the archive does
\* not hold gives a not-found result and does not raise.
C25_AbsentImageNotFound ==
  (request \in ImageRequests
     /\ (\/ request.cam \notin DOMAIN smc_Camera
         \/ request.frame \notin smc_Camera[request.cam]))
    => acc_result = "none"

TaskRows(p) ==
  {i \in DOMAIN manifest_csv :
     /\ StripZeros(manifest_csv[i].subject) = StripZeros(Subject)
     /\ manifest_csv[i].performance = p}

\* process_subject has gone through every configured performance
SubjectProcessed == pc = "done" /\ perfIdx > Len(performances)

\* C27: without force_reextract, no step changes the status of a manifest
\* row from completed to failed or download_failed.
C27_CompletedRowStaysCompleted ==
  [][~force_reextract =>
       \A i \in DOMAIN manifest_csv \cap DOMAIN manifest_csv' :
          (/\ manifest_csv[i].status = "completed"
           /\ manifest_csv'[i].subject = manifest_csv[i].subject
           /\ manifest_csv'[i].performance = manifest_csv[i].performance)
            => manifest_csv'[i].status \notin {"failed", "download_failed"}]_vars

\* C28: when a run has processed the subject to the end, a performance has
\* its .extraction_complete marker exactly when it has a manifest row with
\* status completed.
C28_MarkerIffCompletedRow ==
  SubjectProcessed =>
    \A k \in DOMAIN performances :
       (performances[k] \in markers)
         <=> (\E i \in TaskRows(performances[k]) :
                 manifest_csv[i].status = "completed")

\* C29: when process_subject has gone through the performances, each of
\* them has a manifest row with status completed, failed or
\* download_failed.
C29_EveryPerformanceHasRow ==
  SubjectProcessed =>
    \A k \in DOMAIN performances :
       \E i \in TaskRows(performances[k]) :
          manifest_csv[i].status \in {"completed", "failed", "download_failed"}

====
